---- MODULE Spec2Model ----
(***************************************************************************)
(* Key lifecycle and token issuance of the JWKS server (main.go).          *)
(*                                                                         *)
(* Two specifications share the handlers:                                  *)
(*   Spec      the server process: main runs initKeys once, then serves    *)
(*             /.well-known/jwks.json and /auth;                           *)
(*   TestSpec  the test binary (main_test.go): the package globals         *)
(*             validKey / expiredKey are assigned directly and the         *)
(*             handlers are called on whatever the registry holds.         *)
(*                                                                         *)
(* Time is counted in clock ticks, Second ticks to the second, so that     *)
(* time.Time.Unix() is a real truncation.  RSA key material and the        *)
(* serialized signature are not modelled: a key pair is its Kid and its    *)
(* ExpiresAt, a token is its header kid and its exp / iat claims.          *)
(***************************************************************************)
EXTENDS Integers, Sequences, FiniteSets, TLC

VARIABLES
    pc,          \* "start" | "serving" | "fatal" (process of main), "test" (test binary)
    validKey,    \* global validKey   *KeyPair (Nil = nil pointer)
    expiredKey,  \* global expiredKey *KeyPair
    now,         \* the wall clock read by time.Now(), in ticks
    ticks,       \* how many times the clock has advanced (bounded)
    nextKid,     \* identifiers handed out so far + 1 (uuid.New() is fresh)
    resp,        \* outcome of the operation performed by the last step
    signFailed   \* a call of signFunc has failed at some point in the past

vars == <<pc, validKey, expiredKey, now, ticks, nextKid, resp, signFailed>>

----------------------------------------------------------------------------
(* Bounds and units *)

Second == 2
MaxTicks == 3
MaxKeys == 3

Hour == 3600 * Second
Day == 24 * Hour

Deltas == {1, Hour, Day - 1}
StartTimes == {2 * Day, 2 * Day + 1}
Methods == {"GET", "POST"}
ExpiredParams == {"", "true"}

----------------------------------------------------------------------------
(* Data *)

\* nil *KeyPair.  Identifiers of generated keys start at 1.
Nil == [Kid |-> 0, ExpiresAt |-> 0]

KeyPair(kid, expiresAt) == [Kid |-> kid, ExpiresAt |-> expiresAt]

\* time.Time.Unix(): whole seconds, sub-second part dropped.
Unix(t) == t \div Second

NoResp ==
    [op |-> "none", method |-> "", expired |-> "", signOk |-> FALSE,
     genOk |-> <<>>, status |-> 0, err |-> "none", kid |-> 0, exp |-> 0,
     iat |-> 0, signCalled |-> FALSE, keys |-> <<>>, at |-> 0]

\* generateKeyPair: (nil, err) when rsa.GenerateKey fails, else a key pair
\* with a fresh identifier and the given expiry.
generateKeyPairFixedKid(expiresAt, id, ok) ==
    IF ok THEN KeyPair(1, expiresAt) ELSE Nil

generateKeyPair(expiresAt, id, ok) ==
    IF ok THEN KeyPair(id, expiresAt) ELSE Nil

toJWKNoKid(kp) ==
    [kty |-> "RSA", kid |-> 0, use |-> "sig", alg |-> "RS256"]

toJWK(kp) ==
    [kty |-> "RSA", kid |-> kp.Kid, use |-> "sig", alg |-> "RS256"]

\* The keys of the JWKS document jwksHandler builds when time.Now() = t
\* (<<>> is the nil slice, which the encoder writes as "keys":null).
jwksKeysNotAfter(t) ==
    IF validKey # Nil /\ t <= validKey.ExpiresAt
    THEN <<toJWK(validKey)>> ELSE <<>>

jwksKeys(t) ==
    IF validKey # Nil /\ t < validKey.ExpiresAt
    THEN <<toJWK(validKey)>> ELSE <<>>

\* Key and exp claim chosen by authHandler for the query parameter
\* "expired" when time.Now() = t.
selectKeyNoElse(expired, t) ==
    IF expired # "" /\ expiredKey # Nil
    THEN [found |-> TRUE, key |-> expiredKey, exp |-> Unix(expiredKey.ExpiresAt)]
    ELSE [found |-> TRUE, key |-> validKey, exp |-> Unix(t + Hour)]

selectKeyAlwaysValid(expired, t) ==
    IF validKey # Nil
    THEN [found |-> TRUE, key |-> validKey, exp |-> Unix(t + Hour)]
    ELSE [found |-> FALSE, key |-> Nil, exp |-> 0]

selectKey(expired, t) ==
    IF expired # "" /\ expiredKey # Nil
    THEN [found |-> TRUE, key |-> expiredKey, exp |-> Unix(expiredKey.ExpiresAt)]
    ELSE IF validKey # Nil
    THEN [found |-> TRUE, key |-> validKey, exp |-> Unix(t + Hour)]
    ELSE [found |-> FALSE, key |-> Nil, exp |-> 0]

\* The response of jwksHandler.
jwksResponse(method, t) ==
    IF method # "GET"
    THEN [NoResp EXCEPT !.op = "jwks", !.method = method, !.status = 405,
                        !.err = "MethodNotAllowed", !.at = t]
    ELSE [NoResp EXCEPT !.op = "jwks", !.method = method, !.status = 200,
                        !.keys = jwksKeys(t), !.at = t]

\* The response of authHandler: t1 is the clock at the key selection,
\* t2 the clock when the claims are built.
authResponseIgnoreSignErr(method, expired, signOk, t1, t2) ==
    LET sel == selectKey(expired, t1)
        base == [NoResp EXCEPT !.op = "auth", !.method = method,
                               !.expired = expired, !.signOk = signOk, !.at = t1]
    IN  IF method # "POST"
        THEN [base EXCEPT !.status = 405, !.err = "MethodNotAllowed"]
        ELSE IF ~sel.found
        THEN [base EXCEPT !.status = 500, !.err = "NoKeyAvailable"]
        ELSE [base EXCEPT !.status = 200, !.signCalled = TRUE,
                          !.kid = sel.key.Kid, !.exp = sel.exp, !.iat = Unix(t2)]

authResponse(method, expired, signOk, t1, t2) ==
    LET sel == selectKey(expired, t1)
        base == [NoResp EXCEPT !.op = "auth", !.method = method,
                               !.expired = expired, !.signOk = signOk, !.at = t1]
    IN  IF method # "POST"
        THEN [base EXCEPT !.status = 405, !.err = "MethodNotAllowed"]
        ELSE IF ~sel.found
        THEN [base EXCEPT !.status = 500, !.err = "NoKeyAvailable"]
        ELSE IF ~signOk
        THEN [base EXCEPT !.status = 500, !.err = "SigningFailure",
                          !.signCalled = TRUE]
        ELSE [base EXCEPT !.status = 200, !.signCalled = TRUE,
                          !.kid = sel.key.Kid, !.exp = sel.exp, !.iat = Unix(t2)]

----------------------------------------------------------------------------
(* Operations *)

\* The clock may advance by d during an operation only within the bound.
Elapse(d) ==
    /\ d > 0 => ticks < MaxTicks
    /\ now' = now + d
    /\ ticks' = IF d > 0 THEN ticks + 1 ELSE ticks

jwksHandler(method) ==
    /\ resp' = jwksResponse(method, now)
    /\ UNCHANGED <<validKey, expiredKey, now, ticks, nextKid, signFailed>>

authHandler(method, expired, signOk, d) ==
    /\ d > 0 => (method = "POST" /\ selectKey(expired, now).found)
    /\ Elapse(d)
    /\ resp' = authResponse(method, expired, signOk, now, now + d)
    /\ signFailed' = (signFailed \/ resp'.err = "SigningFailure")
    /\ UNCHANGED <<validKey, expiredKey, nextKid>>

\* initKeys: ok1, ok2 are the outcomes of the two generateKeyPairFunc calls,
\* d the time that passes between the two reads of time.Now().
initKeys(ok1, ok2, d) ==
    /\ validKey' = generateKeyPair(now + Day, nextKid, ok1)
    /\ IF ok1
       THEN /\ Elapse(d)
            /\ expiredKey' = generateKeyPair(now + d - Hour, nextKid + 1, ok2)
            /\ nextKid' = IF ok2 THEN nextKid + 2 ELSE nextKid + 1
            /\ resp' = [NoResp EXCEPT !.op = "initKeys", !.genOk = <<ok1, ok2>>,
                                      !.err = IF ok2 THEN "none" ELSE "KeyGenFailure",
                                      !.at = now + d]
       ELSE /\ d = 0
            /\ UNCHANGED <<expiredKey, nextKid, now, ticks>>
            /\ resp' = [NoResp EXCEPT !.op = "initKeys", !.genOk = <<ok1>>,
                                      !.err = "KeyGenFailure", !.at = now]
    /\ UNCHANGED signFailed

\* main: initKeys, then log.Fatal on error or ListenAndServe.
mainIgnoreErr ==
    /\ pc = "start"
    /\ \E ok1, ok2 \in BOOLEAN, d \in {0, 1} : initKeys(ok1, ok2, d)
    /\ pc' = "serving"

main ==
    /\ pc = "start"
    /\ \E ok1, ok2 \in BOOLEAN, d \in {0, 1} : initKeys(ok1, ok2, d)
    /\ pc' = IF resp'.err = "none" THEN "serving" ELSE "fatal"

\* A request routed to jwksHandler by the running server.
ServeJwks ==
    /\ pc = "serving"
    /\ \E method \in Methods : jwksHandler(method)
    /\ UNCHANGED pc

\* A request routed to authHandler by the running server.
ServeAuth ==
    /\ pc = "serving"
    /\ \E method \in Methods, expired \in ExpiredParams,
          signOk \in BOOLEAN, d \in {0, 1} :
            authHandler(method, expired, signOk, d)
    /\ UNCHANGED pc

\* Time passes between operations.
Tick ==
    /\ pc \in {"serving", "test"}
    /\ \E d \in Deltas : Elapse(d)
    /\ resp' = NoResp
    /\ UNCHANGED <<pc, validKey, expiredKey, nextKid, signFailed>>

Init ==
    /\ pc = "start"
    /\ validKey = Nil
    /\ expiredKey = Nil
    /\ now \in StartTimes
    /\ ticks = 0
    /\ nextKid = 1
    /\ resp = NoResp
    /\ signFailed = FALSE

Next == main \/ ServeJwks \/ ServeAuth \/ Tick

Spec == Init /\ [][Next]_vars

----------------------------------------------------------------------------
(* The test binary *)

\* validKey, _ = generateKeyPair(time.Now().Add(+-time.Hour))
TestSetValidKey ==
    /\ pc = "test"
    /\ nextKid <= MaxKeys
    /\ \E off \in {Hour, -Hour}, ok \in BOOLEAN :
         /\ validKey' = generateKeyPair(now + off, nextKid, ok)
         /\ nextKid' = IF ok THEN nextKid + 1 ELSE nextKid
    /\ resp' = NoResp
    /\ UNCHANGED <<pc, expiredKey, now, ticks, signFailed>>

\* expiredKey, _ = generateKeyPair(time.Now().Add(-time.Hour))
TestSetExpiredKey ==
    /\ pc = "test"
    /\ nextKid <= MaxKeys
    /\ \E ok \in BOOLEAN :
         /\ expiredKey' = generateKeyPair(now - Hour, nextKid, ok)
         /\ nextKid' = IF ok THEN nextKid + 1 ELSE nextKid
    /\ resp' = NoResp
    /\ UNCHANGED <<pc, validKey, now, ticks, signFailed>>

\* validKey, expiredKey = nil, nil
TestClearKeys ==
    /\ pc = "test"
    /\ validKey' = Nil
    /\ expiredKey' = Nil
    /\ resp' = NoResp
    /\ UNCHANGED <<pc, now, ticks, nextKid, signFailed>>

\* initKeys() called from a test, generateKeyPairFunc failing or not.
TestInitKeys ==
    /\ pc = "test"
    /\ nextKid + 1 <= MaxKeys
    /\ \E ok1, ok2 \in BOOLEAN, d \in {0, 1} : initKeys(ok1, ok2, d)
    /\ UNCHANGED pc

\* jwksHandler(w, req) on a recorder.
TestJwks ==
    /\ pc = "test"
    /\ \E method \in Methods : jwksHandler(method)
    /\ UNCHANGED pc

\* authHandler(w, req) on a recorder, signFunc failing or not.
TestAuth ==
    /\ pc = "test"
    /\ \E method \in Methods, expired \in ExpiredParams,
          signOk \in BOOLEAN, d \in {0, 1} :
            authHandler(method, expired, signOk, d)
    /\ UNCHANGED pc

TestInit ==
    /\ pc = "test"
    /\ validKey = Nil
    /\ expiredKey = Nil
    /\ now \in StartTimes
    /\ ticks = 0
    /\ nextKid = 1
    /\ resp = NoResp
    /\ signFailed = FALSE

TestNext ==
    \/ TestSetValidKey \/ TestSetExpiredKey \/ TestClearKeys \/ TestInitKeys
    \/ TestJwks \/ TestAuth \/ Tick

TestSpec == TestInit /\ [][TestNext]_vars

----------------------------------------------------------------------------
(* Properties *)

\* The kids of the records of a JWKS document.
DocKids(keys) == {keys[i].kid : i \in DOMAIN keys}

\* The key pairs the registry holds.
Held == {validKey, expiredKey} \ {Nil}

IssuedNormal == resp.op = "auth" /\ resp.status = 200 /\ resp.expired = ""
IssuedForced == resp.op = "auth" /\ resp.status = 200 /\ resp.expired # ""

\* C1: the document jwksHandler builds at a time now holds a record with the
\* kid of a key pair of the registry (either slot) exactly when that key's
\* ExpiresAt is strictly after now; at now = ExpiresAt the key is left out.
C1_ExpiryFiltering ==
    (resp.op = "jwks" /\ resp.status = 200) =>
        \A k \in Held : (k.Kid \in DocKids(resp.keys)) <=> (k.ExpiresAt > resp.at)

\* A document built at the very tick the active key expires, both slots filled.
C1_Witness ==
    /\ resp.op = "jwks" /\ resp.status = 200
    /\ validKey # Nil /\ expiredKey # Nil
    /\ resp.at = validKey.ExpiresAt
    /\ resp.keys = <<>>

\* C2: a token issued for a normal request carries validKey.Kid in its header
\* and a token issued for a request with a non-empty "expired" parameter
\* carries expiredKey.Kid, whatever the registry holds.
C2_Claim ==
    /\ IssuedNormal => resp.kid = validKey.Kid
    /\ IssuedForced => resp.kid = expiredKey.Kid

\* C3: a request with a non-empty "expired" parameter made while the expired
\* slot is unset fails with NoKeyAvailable and yields no token, also when an
\* active key is present.
C3_Claim ==
    (resp.op = "auth" /\ resp.method = "POST" /\ resp.expired # ""
        /\ expiredKey = Nil) =>
        (resp.status = 500 /\ resp.err = "NoKeyAvailable" /\ resp.kid = 0)

\* C4: the exp claim of a normally issued token is now + 3600 seconds whatever
\* the active key's expiry, and the exp claim of a token issued for a request
\* with a non-empty "expired" parameter is expiredKey.ExpiresAt.
C4_Claim ==
    /\ IssuedNormal => resp.exp = Unix(resp.at) + 3600
    /\ IssuedForced => (expiredKey # Nil /\ resp.exp = Unix(expiredKey.ExpiresAt))

\* C5: with both slots unset, a POST to authHandler fails with NoKeyAvailable
\* (500) for either value of the "expired" parameter, yields no token and
\* does not call signFunc.
C5_NoKeys ==
    (resp.op = "auth" /\ resp.method = "POST" /\ validKey = Nil /\ expiredKey = Nil) =>
        /\ resp.status = 500
        /\ resp.err = "NoKeyAvailable"
        /\ resp.kid = 0
        /\ ~resp.signCalled

\* The forced scenario with both slots unset and a signFunc that would succeed.
C5_Witness ==
    /\ resp.op = "auth" /\ resp.method = "POST" /\ resp.expired # ""
    /\ resp.signOk
    /\ validKey = Nil /\ expiredKey = Nil
    /\ resp.status = 500

\* C6: a failing signFunc makes authHandler answer 500 (SigningFailure)
\* without a token and leaves both key slots as they were; and whenever
\* signFunc works and a key is selected the request succeeds with that key,
\* in particular after an earlier signing failure.
C6_SignFailureIsolation ==
    /\ [][(resp'.op = "auth" /\ resp'.signCalled /\ ~resp'.signOk) =>
            /\ resp'.status = 500
            /\ resp'.err = "SigningFailure"
            /\ resp'.kid = 0
            /\ validKey' = validKey
            /\ expiredKey' = expiredKey]_vars
    /\ [](  (resp.op = "auth" /\ resp.method = "POST" /\ resp.signOk
                /\ selectKey(resp.expired, resp.at).found) =>
            /\ resp.status = 200
            /\ resp.kid = selectKey(resp.expired, resp.at).key.Kid)

\* A token issued after signFunc has failed before.
C6_Witness ==
    /\ signFailed
    /\ resp.op = "auth" /\ resp.status = 200 /\ resp.kid # 0

\* C7: when initKeys has returned without error at T0 the registry holds two
\* key pairs with distinct identifiers, the active one expiring strictly
\* after T0 and the expired one strictly before T0, and the document built
\* at T0 has exactly one record, with the active key's kid.
C7_AfterInit ==
    (resp.op = "initKeys" /\ resp.err = "none") =>
        /\ validKey # Nil /\ expiredKey # Nil
        /\ validKey.Kid # expiredKey.Kid
        /\ validKey.ExpiresAt > resp.at
        /\ expiredKey.ExpiresAt < resp.at
        /\ Len(jwksKeys(resp.at)) = 1
        /\ DocKids(jwksKeys(resp.at)) = {validKey.Kid}

\* initKeys has just returned nil, the clock having moved between its two reads.
C7_Witness ==
    /\ resp.op = "initKeys" /\ resp.err = "none"
    /\ pc = "serving"
    /\ expiredKey.ExpiresAt + Hour > validKey.ExpiresAt - Day

\* C8: a failure of either key generation makes initKeys return an error and
\* the process stop without serving; requests are handled only by a process
\* whose initKeys succeeded, so every handled request sees both slots filled.
C8_InitBeforeServe ==
    /\ (resp.op = "initKeys" /\ FALSE \in {resp.genOk[i] : i \in DOMAIN resp.genOk})
            => (resp.err = "KeyGenFailure" /\ pc = "fatal")
    /\ pc = "fatal" => resp.op = "initKeys"
    /\ resp.op \in {"jwks", "auth"} => pc = "serving"
    /\ pc = "serving" => (validKey # Nil /\ expiredKey # Nil)

\* The second generation failed: one slot is filled and the process is dead.
C8_Witness ==
    /\ pc = "fatal"
    /\ validKey # Nil /\ expiredKey = Nil

\* C9: once initialised, the expired key is in no document, and the header
\* kid of a token issued for a request with a non-empty "expired" parameter
\* matches no record of the document built at the same time.
C9_ExpiredKeyAbsent ==
    /\ pc = "serving" => expiredKey.Kid \notin DocKids(jwksKeys(now))
    /\ (resp.op = "jwks" /\ resp.status = 200) => expiredKey.Kid \notin DocKids(resp.keys)
    /\ IssuedForced => resp.kid \notin DocKids(jwksKeys(resp.at))

\* A forced-expired token issued while the document is not empty.
C9_Witness ==
    /\ pc = "serving"
    /\ IssuedForced
    /\ resp.kid = expiredKey.Kid
    /\ Len(jwksKeys(resp.at)) = 1

\* C10 as stated: whenever a normal request is issued a token, the document
\* built at the same time has a record with the token's header kid, also at
\* and after the active key's ExpiresAt.
C10_Claim ==
    IssuedNormal => resp.kid \in DocKids(jwksKeys(resp.at))

\* C10 amended: the record is there when the request is made strictly before
\* the active key's ExpiresAt; from ExpiresAt on the token is still issued
\* and the document has no record for it.
C10_LocatableBeforeExpiry ==
    IssuedNormal =>
        /\ resp.kid = validKey.Kid
        /\ (resp.at < validKey.ExpiresAt) <=> (resp.kid \in DocKids(jwksKeys(resp.at)))

\* A token issued at the last tick before the active key expires.
C10_Witness ==
    /\ IssuedNormal
    /\ resp.at + 1 = validKey.ExpiresAt
    /\ resp.kid \in DocKids(jwksKeys(resp.at))

====
